---- MODULE Spec2Model ----
(***************************************************************************)
(* drand-rs, crate drand_core: the beacon verification of beacon.rs and    *)
(* the HTTP client of http_client.rs.                                      *)
(*                                                                         *)
(* Byte vectors (Vec<u8>) are sequences of 0..255.  SHA-256 is the ideal   *)
(* hash: Sha256(x) is the digest of x, equal to another value only when    *)
(* that value is the digest of the same bytes.  Strings that the code      *)
(* searches with contains() are sequences of characters.                   *)
(***************************************************************************)
EXTENDS Integers, Sequences, FiniteSets, TLC

VARIABLES
    beacon,     \* the RandomnessBeacon the beacon.rs operations are applied to
    info,       \* the ChainInfo handed to verify
    op,         \* the beacon.rs operation applied last ("none" before any)
    out,        \* what that operation returned
    calls,      \* the operations verify invoked, in order
    base_url,           \* HttpClient.base_url
    options,            \* HttpClient.options
    cached_chain_info,  \* HttpClient.cached_chain_info, the content of the Mutex
    lock,       \* the task holding the guard of that Mutex, if any
    pc,         \* per task: where its call on the client stands
    call,       \* per task: the client method it called
    url,        \* per task: the beacon URL its request in flight was sent to
    round_unix_time, \* per task: the argument of its get_by_unix_time, until used
    site,       \* per task: which chain_info() call it is in or was in last
    api,        \* per task: the ApiBeacon it fetched
    time,       \* per task: the unix time it attached to the beacon
    ci_filled,  \* per task: was the cache filled when its chain_info() call began
    ci_req,     \* per task: has that chain_info() call sent a request
    ci_info,    \* per task: the chain info that call holds, copied from the slot or fetched
    ci_ret,     \* per task: what that chain_info() call returned
    result,     \* per task: what its call on the client returned
    started     \* calls on the client begun so far

vvars == <<beacon, info, op, out, calls>>

cvars == <<base_url, options, cached_chain_info, lock, pc, call, url, round_unix_time, site, api, time,
           ci_filled, ci_req, ci_info, ci_ret, result, started>>

vars == <<vvars, cvars>>

(***************************************************************************)
(* Bounds of the model and constants of the program.                       *)
(***************************************************************************)
MaxRound == 2
MaxCalls == 2
BigRound == 1000000
G1Len == 48
G2Len == 96
RoundLen == 8

Rounds == (0..MaxRound) \cup {BigRound}

(***************************************************************************)
(* Result<T>: Ok(v), Err(e), and the abort of the thread by a panic.       *)
(***************************************************************************)
Ok(v) == [tag |-> "Ok", val |-> v]
Err(e) == [tag |-> "Err", val |-> e]
Panic(e) == [tag |-> "Panic", val |-> e]

(***************************************************************************)
(* Bytes.                                                                  *)
(***************************************************************************)
Fill(n, b) == [i \in 1..n |-> b]

\* Sha256::new(); update(bytes); finalize().to_vec()
Sha256(bytes) == [alg |-> "sha256", pre |-> bytes]

\* a 32 byte string that is the digest of none of the model's byte strings
RawDigest(b) == [alg |-> "raw", pre |-> Fill(1, b)]

RECURSIVE be_bytes(_, _)
be_bytes(n, k) == IF k = 0 THEN <<>> ELSE Append(be_bytes(n \div 256, k - 1), n % 256)

\* u64::to_be_bytes
to_be_bytes(round) == be_bytes(round, RoundLen)

\* str::contains
contains(s, pat) ==
    \E i \in 1..(Len(s) + 1) :
        /\ i + Len(pat) - 1 <= Len(s)
        /\ SubSeq(s, i, i + Len(pat) - 1) = pat

(***************************************************************************)
(* Scheme identifiers.                                                     *)
(***************************************************************************)
PedersenBlsChained == <<"p", "e", "d", "e", "r", "s", "e", "n", "-", "b", "l", "s", "-", "c", "h", "a", "i", "n", "e", "d">>
BlsUnchainedOnG1 == <<"b", "l", "s", "-", "u", "n", "c", "h", "a", "i", "n", "e", "d", "-", "o", "n", "-", "g", "1">>
PedersenBlsUnchained == <<"p", "e", "d", "e", "r", "s", "e", "n", "-", "b", "l", "s", "-", "u", "n", "c", "h", "a", "i", "n", "e", "d">>
OnG1 == <<"o", "n", "-", "g", "1">>
Unchained == <<"u", "n", "c", "h", "a", "i", "n", "e", "d">>

(***************************************************************************)
(* Beacons.                                                                *)
(***************************************************************************)
ChainedBeacon(round, randomness, signature, previous_signature) ==
    [kind |-> "ChainedBeacon", round |-> round, randomness |-> randomness,
     signature |-> signature, previous_signature |-> previous_signature]

UnchainedBeacon(round, randomness, signature) ==
    [kind |-> "UnchainedBeacon", round |-> round, randomness |-> randomness,
     signature |-> signature]

\* A round is a u64.  A round below 2^31 is the number in the field round;
\* a larger one cannot be written as a number here, and a beacon with such
\* a round holds the eight big-endian bytes of it in the field round_be.
ChainedBeaconBE(round_be, randomness, signature, previous_signature) ==
    [kind |-> "ChainedBeacon", round_be |-> round_be, randomness |-> randomness,
     signature |-> signature, previous_signature |-> previous_signature]

\* self.round().to_be_bytes()
round_to_be_bytes(b) ==
    IF "round_be" \in DOMAIN b THEN b.round_be ELSE to_be_bytes(b.round)

\* faulty variant: the signature length is ignored
scheme_id_by_kind(b) ==
    IF b.kind = "ChainedBeacon" THEN PedersenBlsChained ELSE PedersenBlsUnchained

scheme_id(b) ==
    IF b.kind = "ChainedBeacon"
    THEN PedersenBlsChained
    ELSE IF Len(b.signature) = G1Len
         THEN BlsUnchainedOnG1
         ELSE PedersenBlsUnchained

is_signature_on_g1(b) == contains(scheme_id(b), OnG1)

is_unchained(b) == contains(scheme_id(b), Unchained)

\* faulty variant: the round is put before the previous signature
ChainedMessageRoundFirst(b) ==
    IF Len(b.previous_signature) # G2Len
    THEN Panic("source slice length does not match destination slice length")
    ELSE Ok(Sha256(round_to_be_bytes(b) \o b.previous_signature))

\* ChainedBeacon::message: clone_from_slice panics unless the lengths agree
ChainedMessage(b) ==
    IF Len(b.previous_signature) # G2Len
    THEN Panic("source slice length does not match destination slice length")
    ELSE Ok(Sha256(b.previous_signature \o round_to_be_bytes(b)))

UnchainedMessage(b) == Ok(Sha256(round_to_be_bytes(b)))

message(b) ==
    IF b.kind = "ChainedBeacon" THEN ChainedMessage(b) ELSE UnchainedMessage(b)

(***************************************************************************)
(* crate::bls_signatures::verify, the opaque pairing check: an error for   *)
(* byte lengths that are no (signature, public key) pair of a scheme, and  *)
(* otherwise whether the signature is the one the key's holder makes for   *)
(* the message.                                                            *)
(***************************************************************************)
RECURSIVE MixRange(_, _, _)
MixRange(bytes, lo, hi) ==
    IF lo > hi THEN 0
    ELSE IF lo = hi THEN bytes[lo] + 1
    ELSE LET mid == (lo + hi) \div 2
         IN  (MixRange(bytes, lo, mid) * 31 + MixRange(bytes, mid + 1, hi) * 17 + 1) % 251

Mix(bytes, acc) == (MixRange(bytes, 1, Len(bytes)) * 7 + acc) % 251

\* the signature the holder of public_key makes for msg
Sign(public_key, msg) ==
    LET n == IF Len(public_key) = G1Len THEN G2Len ELSE G1Len
        h == Mix(msg.pre, public_key[1])
    IN  [i \in 1..n |-> IF i = 1 THEN public_key[1] ELSE IF i = 2 THEN h ELSE 0]

bls_verify(signature, msg, public_key) ==
    IF <<Len(signature), Len(public_key)>> \notin {<<G2Len, G1Len>>, <<G1Len, G2Len>>}
    THEN Err("invalid signature or public key length")
    ELSE Ok(signature = Sign(public_key, msg))

(***************************************************************************)
(* chain::ChainInfo, with its accessors scheme_id() and public_key().      *)
(***************************************************************************)
ChainInfo(public_key, period, genesis_time, hash, scheme) ==
    [public_key |-> public_key, period |-> period, genesis_time |-> genesis_time,
     hash |-> hash, scheme_id |-> scheme]

(***************************************************************************)
(* RandomnessBeacon::verify.  ret is what the call returns; calls lists    *)
(* the operations it invoked, in order.  The arguments of the pairing      *)
(* check are evaluated left to right, message()? before public_key().      *)
(***************************************************************************)
\* faulty variant: || in place of &&
verify_exec_or(b, chain) ==
    IF scheme_id(b) # chain.scheme_id
    THEN [ret |-> Ok(FALSE), calls |-> <<"scheme_id">>]
    ELSE LET m == message(b) IN
         IF m.tag # "Ok"
         THEN [ret |-> m, calls |-> <<"scheme_id", "message">>]
         ELSE LET sv == bls_verify(b.signature, m.val, chain.public_key) IN
              IF sv.tag # "Ok"
              THEN [ret |-> sv, calls |-> <<"scheme_id", "message", "bls_verify">>]
              ELSE [ret |-> Ok(sv.val \/ Sha256(b.signature) = b.randomness),
                    calls |-> <<"scheme_id", "message", "bls_verify", "sha256">>]

\* faulty variant: the schemes are compared last
verify_exec_late_scheme(b, chain) ==
    LET m == message(b) IN
    IF m.tag # "Ok"
    THEN [ret |-> m, calls |-> <<"message">>]
    ELSE LET sv == bls_verify(b.signature, m.val, chain.public_key) IN
         IF sv.tag # "Ok"
         THEN [ret |-> sv, calls |-> <<"message", "bls_verify">>]
         ELSE [ret |-> Ok(scheme_id(b) = chain.scheme_id /\ sv.val
                          /\ Sha256(b.signature) = b.randomness),
               calls |-> <<"message", "bls_verify", "sha256", "scheme_id">>]

\* faulty variant: an invalid beacon is reported as an error
verify_exec_raise(b, chain) ==
    IF scheme_id(b) # chain.scheme_id
    THEN [ret |-> Ok(FALSE), calls |-> <<"scheme_id">>]
    ELSE LET m == message(b) IN
         IF m.tag # "Ok"
         THEN [ret |-> m, calls |-> <<"scheme_id", "message">>]
         ELSE LET sv == bls_verify(b.signature, m.val, chain.public_key) IN
              IF sv.tag # "Ok"
              THEN [ret |-> sv, calls |-> <<"scheme_id", "message", "bls_verify">>]
              ELSE IF sv.val /\ Sha256(b.signature) = b.randomness
                   THEN [ret |-> Ok(TRUE),
                         calls |-> <<"scheme_id", "message", "bls_verify", "sha256">>]
                   ELSE [ret |-> Err("Beacon does not validate"),
                         calls |-> <<"scheme_id", "message", "bls_verify", "sha256">>]

\* RandomnessBeacon::verify
verify_exec(b, chain) ==
    IF scheme_id(b) # chain.scheme_id
    THEN [ret |-> Ok(FALSE), calls |-> <<"scheme_id">>]
    ELSE LET m == message(b) IN
         IF m.tag # "Ok"
         THEN [ret |-> m, calls |-> <<"scheme_id", "message">>]
         ELSE LET sv == bls_verify(b.signature, m.val, chain.public_key) IN
              IF sv.tag # "Ok"
              THEN [ret |-> sv, calls |-> <<"scheme_id", "message", "bls_verify">>]
              ELSE [ret |-> Ok(sv.val /\ Sha256(b.signature) = b.randomness),
                    calls |-> <<"scheme_id", "message", "bls_verify", "sha256">>]

verify(b, chain) == verify_exec(b, chain).ret

(***************************************************************************)
(* The inputs of the beacon.rs operations: the beacons each network signs  *)
(* and every beacon made from them by replacing fields.                    *)
(***************************************************************************)
KeyA == Fill(G1Len, 10)
KeyB == Fill(G1Len, 11)
KeyC == Fill(G2Len, 12)
KeyShort == Fill(3, 13)

HashOf(public_key, scheme) == Fill(32, Mix(public_key, Len(scheme)))

Info(public_key, scheme) ==
    ChainInfo(public_key, 30, 1595431050, HashOf(public_key, scheme), scheme)

Schemes == {PedersenBlsChained, PedersenBlsUnchained, BlsUnchainedOnG1}

Infos == {Info(k, s) : k \in {KeyA, KeyB, KeyC, KeyShort}, s \in Schemes}

PrevSigs96 == {Fill(G2Len, 1), Fill(G2Len, 2)}

PrevSigs == PrevSigs96 \cup {Fill(G2Len - 1, 1), <<>>}

HonestSigs ==
    {Sign(k, ChainedMessage(ChainedBeacon(r, <<>>, <<>>, p)).val) :
        k \in {KeyA, KeyB}, r \in Rounds, p \in PrevSigs96}
    \cup {Sign(k, UnchainedMessage(UnchainedBeacon(r, <<>>, <<>>)).val) :
        k \in {KeyA, KeyC}, r \in Rounds}

JunkSigs == {Fill(G2Len, 7), Fill(G1Len, 7), Fill(G1Len + 2, 7), <<>>}

Sigs == HonestSigs \cup JunkSigs

Randomness(sig) == {Sha256(sig), Sha256(Fill(G2Len, 7)), RawDigest(9)}

BeaconsOf(r, s) ==
    {ChainedBeacon(r, d, s, p) : d \in Randomness(s), p \in PrevSigs}
    \cup {UnchainedBeacon(r, d, s) : d \in Randomness(s)}

Beacons == UNION {BeaconsOf(r, s) : r \in Rounds, s \in Sigs}

(***************************************************************************)
(* chain::ChainOptions and chain::ChainVerification: the caller's policy.  *)
(***************************************************************************)
None == [tag |-> "None"]
Some(v) == [tag |-> "Some", val |-> v]

ChainVerification(hash, public_key) == [hash |-> hash, public_key |-> public_key]

ChainOptions(is_beacon_verification, is_cache, chain_verification) ==
    [is_beacon_verification |-> is_beacon_verification, is_cache |-> is_cache,
     chain_verification |-> chain_verification]

\* ChainOptions::verify: the fetched chain info has the expected hash and
\* the expected public key, as far as the caller gave them
options_verify(opts, chain) ==
    /\ opts.chain_verification.hash.tag = "Some"
        => chain.hash = opts.chain_verification.hash.val
    /\ opts.chain_verification.public_key.tag = "Some"
        => chain.public_key = opts.chain_verification.public_key.val

(***************************************************************************)
(* The server: what the info endpoint and the beacon endpoints answer.     *)
(***************************************************************************)
Tasks == {"t1", "t2"}

InfoA == Info(KeyA, PedersenBlsChained)
InfoU == Info(KeyA, PedersenBlsUnchained)
InfoShort == Info(KeyShort, PedersenBlsChained)

ServerInfos == {InfoA, InfoU, InfoShort}

\* the base URLs HttpClient::new accepts: one of a server, and one that
\* cannot be a base, as "mailto:x"
BaseUrls == {[scheme |-> "https", cannot_be_a_base |-> FALSE],
             [scheme |-> "mailto", cannot_be_a_base |-> TRUE]}

InfoResponses ==
    {[kind |-> "info", val |-> i] : i \in ServerInfos}
    \cup {[kind |-> k, val |-> None] : k \in {"send_error", "status_error", "parse_error"}}

SignedChained(k, r, p) ==
    LET s == Sign(k, ChainedMessage(ChainedBeacon(r, <<>>, <<>>, p)).val)
    IN  ChainedBeacon(r, Sha256(s), s, p)

ValidBeacon == SignedChained(KeyA, BigRound, Fill(G2Len, 1))
InvalidBeacon == [ValidBeacon EXCEPT !.round = 1]

\* the beacon with the round u64::MAX
MaxRoundBeacon ==
    ChainedBeaconBE(Fill(RoundLen, 255), ValidBeacon.randomness, ValidBeacon.signature,
                    ValidBeacon.previous_signature)

ServerBeacons == {ValidBeacon, InvalidBeacon, MaxRoundBeacon}

BeaconResponses ==
    {[kind |-> "beacon", val |-> b] : b \in ServerBeacons}
    \cup {[kind |-> k, val |-> None] : k \in {"send_error", "parse_error"}}

(***************************************************************************)
(* HttpClient.                                                             *)
(***************************************************************************)
\* faulty variant: options.verify is skipped
chain_info_no_cache_unverified(opts, r) ==
    IF r.kind = "send_error" THEN Err("error sending request")
    ELSE IF r.kind = "status_error" THEN Err("body of the error response")
    ELSE IF r.kind = "parse_error" THEN Err("error decoding response body")
    ELSE Ok(r.val)

\* chain_info_no_cache, given what the info endpoint answered
chain_info_no_cache(opts, r) ==
    IF r.kind = "send_error" THEN Err("error sending request")
    ELSE IF r.kind = "status_error" THEN Err("body of the error response")
    ELSE IF r.kind = "parse_error" THEN Err("error decoding response body")
    ELSE IF options_verify(opts, r.val) THEN Ok(r.val)
    ELSE Err("Chain info is invalid")

\* faulty variant: the slot is never consulted
cache_lookup_never(opts, cached) == None

\* chain_info, lines 94 to 96: the cached value when caching is enabled
cache_lookup(opts, cached) == IF opts.is_cache THEN cached ELSE None

\* faulty variant: the slot is written whether caching is enabled or not
cache_written_always(opts, fetched) == fetched.tag = "Ok"

\* chain_info, lines 98 and 99: is the slot written once chain_info_no_cache
\* returned fetched, and what it holds afterwards
cache_written(opts, fetched) == opts.is_cache /\ fetched.tag = "Ok"

cache_store(opts, cached, fetched) ==
    IF cache_written(opts, fetched) THEN Some(fetched.val) ELSE cached

\* the error of Url::join on a base URL that cannot be a base
JoinError == Err("relative URL with a cannot-be-a-base base")

\* Url::join: the path under the base URL, or the error of a base URL that
\* cannot be a base
join(base, path) ==
    IF base.cannot_be_a_base
    THEN JoinError
    ELSE Ok([base |-> base, path |-> path])

\* beacon_url: public/{round} under the base URL, with a random query key
\* when caching is disabled
beacon_url(base, opts, round) ==
    LET joined == join(base, <<"public", round>>)
    IN  IF joined.tag # "Ok" THEN joined
        ELSE Ok([base |-> base, path |-> joined.val.path,
                 random_query |-> ~opts.is_cache])

\* faulty variant: an answer that does not parse yields an empty beacon
fetch_beacon_lenient(r) ==
    IF r.kind = "send_error" THEN Err("error sending request")
    ELSE IF r.kind = "parse_error" THEN Ok(ChainedBeacon(0, <<>>, <<>>, <<>>))
    ELSE Ok(r.val)

\* latest and get: the json of the beacon endpoint's answer
fetch_beacon(r) ==
    IF r.kind = "send_error" THEN Err("error sending request")
    ELSE IF r.kind = "parse_error" THEN Err("error decoding response body")
    ELSE Ok(r.val)

\* bytes * k + carry for the u64 with the big-endian bytes bytes and a k
\* below 2^23: the carry out, followed by the bytes of the product mod 2^64
RECURSIVE mul_bytes(_, _, _)
mul_bytes(bytes, k, carry) ==
    IF bytes = <<>> THEN <<carry>>
    ELSE LET cur == bytes[Len(bytes)] * k + carry
         IN  mul_bytes(SubSeq(bytes, 1, Len(bytes) - 1), k, cur \div 256)
                \o <<cur % 256>>

\* x + y + carry for two u64 given by their big-endian bytes: the carry
\* out, followed by the bytes of the sum mod 2^64
RECURSIVE add_bytes(_, _, _)
add_bytes(x, y, carry) ==
    IF x = <<>> THEN <<carry>>
    ELSE LET cur == x[Len(x)] + y[Len(y)] + carry
         IN  add_bytes(SubSeq(x, 1, Len(x) - 1), SubSeq(y, 1, Len(y) - 1),
                       cur \div 256) \o <<cur % 256>>

\* the u64 with the big-endian bytes bytes: the number when it is below
\* 2^31, and the bytes themselves otherwise
u64_from_be_bytes(bytes) ==
    IF \A i \in 1..4 : bytes[i] = 0 /\ bytes[5] < 128
    THEN ((bytes[5] * 256 + bytes[6]) * 256 + bytes[7]) * 256 + bytes[8]
    ELSE [be |-> bytes]

\* latest, line 120, and get, line 136: info.genesis_time() + beacon.round()
\* * info.period() on u64, for a genesis time below 2^31 and a period below
\* 2^23.  When the product or the sum passes 2^64 - 1, a build with overflow
\* checks panics and a build without keeps the result mod 2^64.
unix_time(chain, b) ==
    LET product == mul_bytes(round_to_be_bytes(b), chain.period, 0)
        sum == add_bytes(to_be_bytes(chain.genesis_time), Tail(product), 0)
        kept == Ok(u64_from_be_bytes(Tail(sum)))
    IN  IF Head(product) # 0
        THEN {Panic("attempt to multiply with overflow"), kept}
        ELSE IF Head(sum) # 0
        THEN {Panic("attempt to add with overflow"), kept}
        ELSE {kept}

\* a u64 that a wrapped subtraction left, given by its big-endian bytes
Wrapped(bytes) == [tag |-> "Wrapped", val |-> bytes]

complement(bytes) == [i \in 1..Len(bytes) |-> 255 - bytes[i]]

\* a - b on u64: the difference when a >= b.  When a < b the subtraction
\* panics in a build with overflow checks and wraps to 2^64 + a - b in a
\* build without; that value is the bitwise complement of b - a - 1
u64_sub(a, b) ==
    IF a >= b THEN {Ok(a - b)}
    ELSE {Panic("attempt to subtract with overflow"),
          Wrapped(complement(to_be_bytes(b - a - 1)))}

\* the quotient of the u64 with the big-endian bytes bytes by d, digit by
\* digit, rem being the remainder carried in
RECURSIVE div_bytes(_, _, _)
div_bytes(bytes, d, rem) ==
    IF bytes = <<>> THEN <<>>
    ELSE LET cur == rem * 256 + Head(bytes)
         IN  <<cur \div d>> \o div_bytes(Tail(bytes), d, cur % d)

\* x / d on u64, x being what the subtraction left
u64_div(x, d) ==
    IF x.tag = "Panic" THEN x
    ELSE IF d = 0 THEN Panic("attempt to divide by zero")
    ELSE IF x.tag = "Wrapped" THEN Wrapped(div_bytes(x.val, d, 0))
    ELSE Ok(x.val \div d)

\* get_by_unix_time, line 144: what the computation of round can end in
round_at(chain, t) ==
    {u64_div(x, chain.period) : x \in u64_sub(t, chain.genesis_time)}

\* the times get_by_unix_time is called with: the second before genesis,
\* the last second of round 0 and the first second of round BigRound
UnixTimes ==
    {InfoA.genesis_time - 1,
     InfoA.genesis_time + InfoA.period - 1,
     InfoA.genesis_time + BigRound * InfoA.period}

\* RandomnessBeacon::new(beacon, unix_time)
RandomnessBeaconNew(b, t) == [beacon |-> b, time |-> t]

\* faulty variant: the beacon is returned whatever verify answered
verify_beacon_match_any(b, v) ==
    IF v.tag # "Ok" THEN v ELSE Ok(b)

\* verify_beacon, lines 78 to 81, given what beacon.verify(info) returned
verify_beacon_match(b, v) ==
    IF v.tag # "Ok" THEN v
    ELSE IF v.val THEN Ok(b)
    ELSE Err("Beacon does not validate")

Active(t) == pc[t] \notin {"idle", "done"}

Init ==
    /\ base_url \in BaseUrls
    /\ options \in {ChainOptions(v, c, cv) :
            v \in BOOLEAN, c \in BOOLEAN,
            cv \in {ChainVerification(None, None),
                    ChainVerification(Some(InfoA.hash), None),
                    ChainVerification(None, Some(InfoA.public_key))}}
    /\ cached_chain_info = None
    /\ lock = None
    /\ pc = [t \in Tasks |-> "idle"]
    /\ call = [t \in Tasks |-> "none"]
    /\ url = [t \in Tasks |-> None]
    /\ round_unix_time = [t \in Tasks |-> None]
    /\ site = [t \in Tasks |-> "none"]
    /\ api = [t \in Tasks |-> None]
    /\ time = [t \in Tasks |-> 0]
    /\ ci_filled = [t \in Tasks |-> FALSE]
    /\ ci_req = [t \in Tasks |-> FALSE]
    /\ ci_info = [t \in Tasks |-> None]
    /\ ci_ret = [t \in Tasks |-> None]
    /\ result = [t \in Tasks |-> None]
    /\ started = 0
    /\ beacon = None
    /\ info = None
    /\ op = "none"
    /\ out = Ok(FALSE)
    /\ calls = <<>>

\* a call on the client begins in task t
Begin(t, method) ==
    /\ pc[t] = "idle"
    /\ started < MaxCalls
    /\ started' = started + 1
    /\ call' = [call EXCEPT ![t] = method]

\* chain_info() is called in task t at call site s, the slot holding slot
EnterChainInfo(t, s, slot) ==
    /\ pc' = [pc EXCEPT ![t] = "ci"]
    /\ site' = [site EXCEPT ![t] = s]
    /\ ci_filled' = [ci_filled EXCEPT ![t] = (slot # None)]
    /\ ci_req' = [ci_req EXCEPT ![t] = FALSE]
    /\ ci_ret' = [ci_ret EXCEPT ![t] = None]

\* the call of task t returns r
Finish(t, r) ==
    /\ pc' = [pc EXCEPT ![t] = "done"]
    /\ result' = [result EXCEPT ![t] = r]

\* latest and get, lines 111 to 114 and 127 to 130: the request to
\* public/{round} is sent, unless beacon_url fails and ends the call
SendBeaconRequest(t, round) ==
    LET to == beacon_url(base_url, options, round) IN
        IF to.tag # "Ok"
        THEN /\ Finish(t, to)
             /\ UNCHANGED url
        ELSE /\ pc' = [pc EXCEPT ![t] = "beacon_req"]
             /\ url' = [url EXCEPT ![t] = to.val]
             /\ UNCHANGED result

\* get_by_unix_time, lines 144 and 146: round is computed from the chain
\* info and handed to get, which sends its request; or the computation panics
GetRound(t, chain) ==
    \E round \in round_at(chain, round_unix_time[t].val) :
        IF round.tag = "Panic"
        THEN /\ Finish(t, round)
             /\ UNCHANGED <<call, url>>
        ELSE /\ call' = [call EXCEPT ![t] = "get"]
             /\ SendBeaconRequest(t, round.val)

\* chain_info() returns r to its caller in task t, the slot holding slot
Resume(t, r, slot) ==
    IF r.tag # "Ok"
    THEN /\ Finish(t, r)
         /\ ci_ret' = [ci_ret EXCEPT ![t] = r]
         /\ UNCHANGED <<call, url, round_unix_time, site, time, ci_filled, ci_req>>
    ELSE IF site[t] = "direct"
    THEN /\ Finish(t, r)
         /\ ci_ret' = [ci_ret EXCEPT ![t] = r]
         /\ UNCHANGED <<call, url, round_unix_time, site, time, ci_filled, ci_req>>
    ELSE IF site[t] = "time"
    THEN /\ GetRound(t, r.val)
         /\ round_unix_time' = [round_unix_time EXCEPT ![t] = None]
         /\ ci_ret' = [ci_ret EXCEPT ![t] = r]
         /\ UNCHANGED <<site, time, ci_filled, ci_req>>
    ELSE IF site[t] = "call"
    THEN /\ UNCHANGED <<call, url, round_unix_time>>
         /\ \E at \in unix_time(r.val, api[t]) :
            IF at.tag = "Panic"
            THEN /\ Finish(t, at)
                 /\ ci_ret' = [ci_ret EXCEPT ![t] = r]
                 /\ UNCHANGED <<site, time, ci_filled, ci_req>>
            ELSE /\ time' = [time EXCEPT ![t] = at.val]
                 /\ IF ~options.is_beacon_verification
                    THEN /\ Finish(t, Ok(RandomnessBeaconNew(api[t], at.val)))
                         /\ ci_ret' = [ci_ret EXCEPT ![t] = r]
                         /\ UNCHANGED <<site, ci_filled, ci_req>>
                    ELSE /\ EnterChainInfo(t, "verify", slot)
                         /\ UNCHANGED result
    ELSE /\ Finish(t, verify_beacon_match(RandomnessBeaconNew(api[t], time[t]),
                                           verify(api[t], r.val)))
         /\ ci_ret' = [ci_ret EXCEPT ![t] = r]
         /\ UNCHANGED <<call, url, round_unix_time, site, time, ci_filled, ci_req>>

\* chain_info() called directly
ChainInfoCall(t) ==
    /\ Begin(t, "chain_info")
    /\ EnterChainInfo(t, "direct", cached_chain_info)
    /\ UNCHANGED <<base_url, options, cached_chain_info, lock, url, round_unix_time, api,
                   time, ci_info,
                   result, vvars>>

\* latest(): the request to public/latest is sent
Latest(t) ==
    /\ Begin(t, "latest")
    /\ SendBeaconRequest(t, "latest")
    /\ UNCHANGED <<base_url, options, cached_chain_info, lock, round_unix_time, site, api,
                   time, ci_filled, ci_req, ci_info, ci_ret, vvars>>

\* get(round_number): the request to public/{round_number} is sent
Get(t) ==
    /\ Begin(t, "get")
    /\ \E round_number \in Rounds : SendBeaconRequest(t, round_number)
    /\ UNCHANGED <<base_url, options, cached_chain_info, lock, round_unix_time, site, api,
                   time, ci_filled, ci_req, ci_info, ci_ret, vvars>>

\* get_by_unix_time(round_unix_time), line 143: chain_info() is called
GetByUnixTime(t) ==
    /\ Begin(t, "get_by_unix_time")
    /\ \E unix \in UnixTimes :
        round_unix_time' = [round_unix_time EXCEPT ![t] = Some(unix)]
    /\ EnterChainInfo(t, "time", cached_chain_info)
    /\ UNCHANGED <<base_url, options, cached_chain_info, lock, url, api, time, ci_info,
                   result, vvars>>

\* latest() and get(): the beacon endpoint answers r; an error ends the
\* call, and on a beacon the call goes on to chain_info()
BeaconAnswer(t, r) ==
    /\ LET b == fetch_beacon(r) IN
        IF b.tag # "Ok"
        THEN /\ Finish(t, b)
             /\ UNCHANGED <<site, api, ci_filled, ci_req, ci_ret>>
        ELSE /\ api' = [api EXCEPT ![t] = b.val]
             /\ EnterChainInfo(t, "call", cached_chain_info)
             /\ UNCHANGED result
    /\ url' = [url EXCEPT ![t] = None]
    /\ UNCHANGED <<base_url, options, cached_chain_info, lock, call, round_unix_time, time,
                   ci_info, started, vvars>>

BeaconResponse(t) ==
    /\ pc[t] = "beacon_req"
    /\ \E r \in BeaconResponses : BeaconAnswer(t, r)

\* chain_info_no_cache, lines 44 to 48, called at line 103 without caching
\* and at line 98 when the copy of the slot was empty: the request to the
\* info endpoint is sent, unless the join with the base URL fails, which
\* is the error chain_info() returns
InfoRequest(t) ==
    /\ \/ pc[t] = "ci" /\ ~options.is_cache
       \/ pc[t] = "ci_fetch"
    /\ LET to == join(base_url, <<"info">>) IN
        IF to.tag # "Ok"
        THEN /\ Resume(t, to, cached_chain_info)
        ELSE /\ pc' = [pc EXCEPT ![t] = "info_req"]
             /\ ci_req' = [ci_req EXCEPT ![t] = TRUE]
             /\ UNCHANGED <<call, url, round_unix_time, site, time, ci_filled,
                             ci_ret, result>>
    /\ UNCHANGED <<base_url, options, cached_chain_info, lock, api, ci_info, started,
                   vvars>>

\* chain_info() with caching, line 94: lock() returns the guard once no
\* other task holds it
CacheLock(t) ==
    /\ pc[t] = "ci"
    /\ options.is_cache
    /\ lock = None
    /\ lock' = Some(t)
    /\ pc' = [pc EXCEPT ![t] = "ci_read"]
    /\ UNCHANGED <<base_url, options, cached_chain_info, call, url, round_unix_time, site,
                   api, time, ci_filled, ci_req, ci_info, ci_ret, result, started, vvars>>

\* faulty variant: the guard lives on while the chain info is fetched
guard_after_read_kept(t, cached) == IF cached = None THEN Some(t) ELSE None

\* line 94: the guard is a temporary of the let statement and is dropped at
\* its end, whatever the slot held
guard_after_read(t, cached) == None

\* chain_info(), line 94: the slot is copied under the lock and the guard
\* dropped.  What the call does with the copy, line 95, comes after the
\* release: it returns a cached value, or fetches the chain info
CacheRead(t) ==
    /\ pc[t] = "ci_read"
    /\ LET cached == cache_lookup(options, cached_chain_info) IN
       /\ lock' = guard_after_read(t, cached)
       /\ ci_info' = [ci_info EXCEPT ![t] = cached]
       /\ pc' = [pc EXCEPT ![t] = IF cached # None THEN "ci_return" ELSE "ci_fetch"]
    /\ UNCHANGED <<base_url, options, cached_chain_info, call, url, round_unix_time, site,
                   api, time, ci_filled, ci_req, ci_ret, result, started, vvars>>

\* chain_info(), lines 96, 100 and 103: Ok(info) is returned outside the
\* lock, info being the copy of the slot, the chain info just stored or,
\* without caching, the chain info fetched, and the caller goes on
ChainInfoReturn(t) ==
    /\ pc[t] = "ci_return"
    /\ Resume(t, Ok(ci_info[t].val), cached_chain_info)
    /\ ci_info' = [ci_info EXCEPT ![t] = None]
    /\ UNCHANGED <<base_url, options, cached_chain_info, lock, api, started, vvars>>

\* chain_info_no_cache, lines 48 to 61, called at lines 98 and 103: the
\* info endpoint answers r.  An error, or a chain info that fails
\* options.verify, is the error chain_info() and its caller return.  A
\* chain info that passes is kept in info: with caching it is to be stored
\* in the slot, and without it is returned
InfoAnswer(t, r) ==
    LET got == chain_info_no_cache(options, r) IN
        /\ IF got.tag = "Ok"
           THEN /\ pc' = [pc EXCEPT ![t] =
                        IF cache_written(options, got) THEN "ci_store" ELSE "ci_return"]
                /\ ci_info' = [ci_info EXCEPT ![t] = Some(got.val)]
                /\ UNCHANGED <<call, url, round_unix_time, site, time, ci_filled,
                               ci_req, ci_ret, result>>
           ELSE /\ Resume(t, got, cached_chain_info)
                /\ UNCHANGED ci_info
        /\ UNCHANGED <<base_url, options, cached_chain_info, lock, api, started,
                       vvars>>

InfoResponse(t) ==
    /\ pc[t] = "info_req"
    /\ \E r \in InfoResponses : InfoAnswer(t, r)

\* chain_info(), line 99: lock() returns the guard once no other task
\* holds it
CacheWriteLock(t) ==
    /\ pc[t] = "ci_store"
    /\ lock = None
    /\ lock' = Some(t)
    /\ pc' = [pc EXCEPT ![t] = "ci_write"]
    /\ UNCHANGED <<base_url, options, cached_chain_info, call, url, round_unix_time, site,
                   api, time, ci_filled, ci_req, ci_info, ci_ret, result, started, vvars>>

\* chain_info(), line 99: the slot is assigned under the lock and the
\* guard dropped at the end of the statement
CacheWrite(t) ==
    /\ pc[t] = "ci_write"
    /\ cached_chain_info' = cache_store(options, cached_chain_info, Ok(ci_info[t].val))
    /\ lock' = None
    /\ pc' = [pc EXCEPT ![t] = "ci_return"]
    /\ UNCHANGED <<base_url, options, call, url, round_unix_time, site, api, time,
                   ci_filled, ci_req, ci_info, ci_ret, result, started, vvars>>

\* the caller takes the result; the task is free for another call
Return(t) ==
    /\ pc[t] = "done"
    /\ pc' = [pc EXCEPT ![t] = "idle"]
    /\ call' = [call EXCEPT ![t] = "none"]
    /\ site' = [site EXCEPT ![t] = "none"]
    /\ api' = [api EXCEPT ![t] = None]
    /\ time' = [time EXCEPT ![t] = 0]
    /\ ci_filled' = [ci_filled EXCEPT ![t] = FALSE]
    /\ ci_req' = [ci_req EXCEPT ![t] = FALSE]
    /\ ci_ret' = [ci_ret EXCEPT ![t] = None]
    /\ result' = [result EXCEPT ![t] = None]
    /\ round_unix_time' = [round_unix_time EXCEPT ![t] = None]
    /\ UNCHANGED <<base_url, options, cached_chain_info, lock, ci_info, url, started, vvars>>

Next ==
    \E t \in Tasks :
        \/ ChainInfoCall(t)
        \/ Latest(t)
        \/ Get(t)
        \/ GetByUnixTime(t)
        \/ BeaconResponse(t)
        \/ InfoRequest(t)
        \/ CacheLock(t)
        \/ CacheRead(t)
        \/ InfoResponse(t)
        \/ CacheWriteLock(t)
        \/ CacheWrite(t)
        \/ ChainInfoReturn(t)
        \/ Return(t)

Spec == Init /\ [][Next]_vars

(***************************************************************************)
(* The beacon.rs operations applied to one beacon and one chain info.      *)
(***************************************************************************)
InitVerify ==
    /\ beacon \in Beacons
    /\ info \in Infos
    /\ op = "none"
    /\ out = Ok(FALSE)
    /\ calls = <<>>
    /\ base_url = [scheme |-> "https", cannot_be_a_base |-> FALSE]
    /\ options = ChainOptions(TRUE, TRUE, ChainVerification(None, None))
    /\ cached_chain_info = None
    /\ lock = None
    /\ pc = [t \in Tasks |-> "idle"]
    /\ call = [t \in Tasks |-> "none"]
    /\ url = [t \in Tasks |-> None]
    /\ round_unix_time = [t \in Tasks |-> None]
    /\ site = [t \in Tasks |-> "none"]
    /\ api = [t \in Tasks |-> None]
    /\ time = [t \in Tasks |-> 0]
    /\ ci_filled = [t \in Tasks |-> FALSE]
    /\ ci_req = [t \in Tasks |-> FALSE]
    /\ ci_info = [t \in Tasks |-> None]
    /\ ci_ret = [t \in Tasks |-> None]
    /\ result = [t \in Tasks |-> None]
    /\ started = 0

CallVerify ==
    /\ op = "none"
    /\ op' = "verify"
    /\ out' = verify(beacon, info)
    /\ calls' = verify_exec(beacon, info).calls
    /\ UNCHANGED <<beacon, info, cvars>>

CallSchemeId ==
    /\ op = "none"
    /\ op' = "scheme_id"
    /\ out' = Ok(scheme_id(beacon))
    /\ UNCHANGED <<beacon, info, calls, cvars>>

CallIsSignatureOnG1 ==
    /\ op = "none"
    /\ op' = "is_signature_on_g1"
    /\ out' = Ok(is_signature_on_g1(beacon))
    /\ UNCHANGED <<beacon, info, calls, cvars>>

CallIsUnchained ==
    /\ op = "none"
    /\ op' = "is_unchained"
    /\ out' = Ok(is_unchained(beacon))
    /\ UNCHANGED <<beacon, info, calls, cvars>>

CallMessage ==
    /\ op = "none"
    /\ op' = "message"
    /\ out' = message(beacon)
    /\ UNCHANGED <<beacon, info, calls, cvars>>

NextVerify ==
    \/ CallVerify
    \/ CallSchemeId
    \/ CallIsSignatureOnG1
    \/ CallIsUnchained
    \/ CallMessage

SpecVerify == InitVerify /\ [][NextVerify]_vars

(***************************************************************************)
(* Properties of the beacon.rs operations, checked under SpecVerify.       *)
(***************************************************************************)
SchemesAgree == scheme_id(beacon) = info.scheme_id

MessageBuilt == message(beacon).tag = "Ok"

\* what the pairing check answers for the beacon's signature and message
Primitive == bls_verify(beacon.signature, message(beacon).val, info.public_key)

HashMatches == Sha256(beacon.signature) = beacon.randomness

IsChained == beacon.kind = "ChainedBeacon"

RECURSIVE Decode(_)
Decode(bytes) ==
    IF bytes = <<>> THEN 0
    ELSE Decode(SubSeq(bytes, 1, Len(bytes) - 1)) * 256 + bytes[Len(bytes)]

\* bytes is the big-endian encoding of n on RoundLen bytes
IsBigEndian(bytes, n) ==
    /\ Len(bytes) = RoundLen
    /\ \A i \in 1..RoundLen : bytes[i] \in 0..255
    /\ Decode(bytes) = n

\* C1: when the schemes agree and the pairing check answers a boolean,
\* verify returns true exactly when the check accepted and SHA256(signature)
\* is the randomness field; otherwise it returns false.
ThmC1 ==
    (op = "verify" /\ SchemesAgree /\ MessageBuilt /\ Primitive.tag = "Ok")
        => out = Ok(Primitive.val /\ HashMatches)

\* C1: an accepted signature with a forged randomness field yields false
WitC1 ==
    /\ op = "verify" /\ SchemesAgree /\ MessageBuilt
    /\ Primitive = Ok(TRUE) /\ ~HashMatches
    /\ out = Ok(FALSE)

\* C2: when the beacon's scheme differs from the chain's, verify returns
\* false, not an error, and has invoked nothing but the scheme comparison:
\* neither the message construction nor the pairing check.
ThmC2 ==
    (op = "verify" /\ ~SchemesAgree) => (out = Ok(FALSE) /\ calls = <<"scheme_id">>)

\* C2: a chained beacon with a short previous_signature against a chain of
\* another scheme with a malformed public key
WitC2 ==
    /\ op = "verify" /\ ~SchemesAgree
    /\ IsChained /\ Len(beacon.previous_signature) # G2Len
    /\ Len(info.public_key) \notin {G1Len, G2Len}
    /\ out = Ok(FALSE)

\* C3: verify ends in a boolean or in an error reported by the pairing
\* check, and message construction never fails or aborts.
CexC3 ==
    op = "verify" =>
        \/ out.tag = "Ok"
        \/ out.tag = "Err" /\ calls[Len(calls)] = "bls_verify"

\* the beacon is invalid: wrong scheme, rejected signature or wrong hash
ValidationFailure ==
    \/ ~SchemesAgree
    \/ MessageBuilt /\ Primitive = Ok(FALSE)
    \/ ~HashMatches

\* C4 as stated: whenever verify returns and the beacon is invalid, it
\* returns false, never an error.
CexC4 ==
    (op = "verify" /\ out.tag # "Panic" /\ ValidationFailure) => out = Ok(FALSE)

\* C4 amended: an invalid beacon never yields true; it yields false when the
\* schemes differ and whenever the pairing check answered a boolean; an error
\* is the pairing check's own error, and an abort is the message
\* construction's, in both cases with agreeing schemes.
ThmC4 ==
    (op = "verify" /\ ValidationFailure) =>
        /\ out # Ok(TRUE)
        /\ ~SchemesAgree => out = Ok(FALSE)
        /\ (SchemesAgree /\ MessageBuilt /\ Primitive.tag = "Ok") => out = Ok(FALSE)
        /\ out.tag = "Err" => (SchemesAgree /\ MessageBuilt /\ out = Primitive)
        /\ out.tag = "Panic" => (SchemesAgree /\ out = message(beacon))

\* C4: a wrong randomness field with a malformed public key ends in the
\* pairing check's error
WitC4 ==
    /\ op = "verify" /\ SchemesAgree /\ MessageBuilt
    /\ ~HashMatches /\ Primitive.tag = "Err"
    /\ out = Primitive

\* C5: scheme_id depends on the variant and on whether the signature has 48
\* bytes, and on nothing else; is_unchained and is_signature_on_g1 agree.
ThmC5 ==
    /\ op = "scheme_id" =>
        out = Ok(IF IsChained THEN PedersenBlsChained
                 ELSE IF Len(beacon.signature) = 48 THEN BlsUnchainedOnG1
                 ELSE PedersenBlsUnchained)
    /\ op = "is_unchained" => out = Ok(~IsChained)
    /\ op = "is_signature_on_g1" => out = Ok(~IsChained /\ Len(beacon.signature) = 48)

\* C5: an unchained beacon whose signature has neither 48 nor 96 bytes
WitC5 ==
    /\ op = "scheme_id" /\ ~IsChained
    /\ Len(beacon.signature) \notin {48, 96}
    /\ out = Ok(PedersenBlsUnchained)

\* C6: the message of a chained beacon with a 96 byte previous_signature P
\* is SHA256 of the 104 bytes P || be_bytes(round, 8), and differs from that
\* of any other (P, round); the message of an unchained beacon is
\* SHA256(be_bytes(round, 8)) whatever its signature and randomness.
ThmC6 ==
    op = "message" =>
        IF IsChained
        THEN Len(beacon.previous_signature) = 96 =>
                /\ out.tag = "Ok"
                /\ out.val.alg = "sha256"
                /\ Len(out.val.pre) = 104
                /\ SubSeq(out.val.pre, 1, 96) = beacon.previous_signature
                /\ IsBigEndian(SubSeq(out.val.pre, 97, 104), beacon.round)
                /\ \A p \in PrevSigs96, r \in Rounds :
                    (p # beacon.previous_signature \/ r # beacon.round) =>
                        message(ChainedBeacon(r, beacon.randomness, beacon.signature, p)) # out
        ELSE /\ out.tag = "Ok"
             /\ out.val.alg = "sha256"
             /\ IsBigEndian(out.val.pre, beacon.round)
             /\ \A s \in JunkSigs : \A d \in Randomness(s) :
                    message(UnchainedBeacon(beacon.round, d, s)) = out

\* C6: the message of a chained beacon of round 0
WitC6 ==
    /\ op = "message" /\ IsChained /\ beacon.round = 0
    /\ Len(beacon.previous_signature) = 96
    /\ out.tag = "Ok"

(***************************************************************************)
(* Properties of the HTTP client, checked under Spec.                      *)
(***************************************************************************)
\* the call of task t invoked beacon.verify, with the chain info ci_ret[t]
VerifyInvoked(t) == site[t] = "verify" /\ ci_ret[t].tag = "Ok"

\* C8: latest() and get() return a beacon only if beacon verification is
\* disabled or verify returned true for it; with verification enabled a
\* false of verify ends the call with "Beacon does not validate", and an
\* error of verify or of chain_info() is the error the call ends with.
ThmC8 ==
    \A t \in Tasks :
        (pc[t] = "done" /\ call[t] \in {"latest", "get"}) =>
            /\ result[t].tag = "Ok" =>
                /\ result[t].val.beacon = api[t]
                /\ \/ ~options.is_beacon_verification
                   \/ VerifyInvoked(t) /\ verify(api[t], ci_ret[t].val) = Ok(TRUE)
            /\ (VerifyInvoked(t) /\ verify(api[t], ci_ret[t].val) = Ok(FALSE))
                => result[t] = Err("Beacon does not validate")
            /\ (VerifyInvoked(t) /\ verify(api[t], ci_ret[t].val).tag = "Err")
                => result[t] = verify(api[t], ci_ret[t].val)
            /\ ci_ret[t].tag = "Err" => result[t] = ci_ret[t]

\* C8: latest() got a beacon that does not verify and ended with the error
WitC8 ==
    \E t \in Tasks :
        /\ pc[t] = "done" /\ call[t] = "latest"
        /\ options.is_beacon_verification
        /\ VerifyInvoked(t) /\ verify(api[t], ci_ret[t].val) = Ok(FALSE)
        /\ result[t] = Err("Beacon does not validate")

\* the chain_info() calls that fetched a chain info and have yet to store it
CacheStoring == {t \in Tasks : pc[t] \in {"ci_store", "ci_write"}}

\* the statements of chain_info() a call is at only after its copy of the
\* slot was empty
CacheMiss == {"ci_fetch", "info_req", "ci_store", "ci_write"}

\* C9: with caching enabled, a chain_info() call that began with the slot
\* filled sends no request and returns the copy it took of the slot; the
\* slot is assigned only by the write of a call that fetched, once per
\* fetch, with the chain info fetched; and a call that fetched has filled
\* the slot when it returns.  A filled slot stays filled (C12), so a call
\* that begins after a fetch succeeded and returned sends no request: in a
\* sequential run at most one fetch succeeds.
ThmC9 ==
    /\ [](options.is_cache =>
            /\ \A t \in Tasks :
                ci_filled[t] => (~ci_req[t] /\ pc[t] \notin CacheMiss)
            /\ \A t \in Tasks :
                pc[t] \in CacheStoring => (ci_req[t] /\ ci_info[t] # None)
            /\ \A t \in Tasks :
                (ci_req[t] /\ (pc[t] = "ci_return" \/ ci_ret[t].tag = "Ok"))
                    => cached_chain_info # None)
    /\ [][options.is_cache =>
            /\ cached_chain_info' # cached_chain_info =>
                \E t \in Tasks :
                    /\ pc[t] = "ci_write" /\ pc'[t] = "ci_return"
                    /\ cached_chain_info' = ci_info[t]
            /\ \A t \in Tasks :
                /\ (pc'[t] = "info_req" /\ pc[t] # "info_req") =>
                    (pc[t] = "ci_fetch" /\ ~ci_req[t] /\ ci_info[t] = None)
                /\ (pc'[t] = "ci_store" /\ pc[t] # "ci_store") => pc[t] = "info_req"
                /\ (pc'[t] = "ci_write" /\ pc[t] # "ci_write") => pc[t] = "ci_store"
                /\ (pc[t] = "ci_read" /\ ci_filled[t] /\ pc'[t] # "ci_read") =>
                    /\ pc'[t] = "ci_return"
                    /\ ci_info'[t] = cached_chain_info
                    /\ UNCHANGED cached_chain_info
                /\ (pc[t] = "ci_return" /\ ci_ret'[t] # None) =>
                    /\ ci_ret'[t] = Ok(ci_info[t].val)
                    /\ UNCHANGED cached_chain_info]_vars

\* C9: a direct chain_info() call, made after an earlier call returned,
\* found the slot filled and returned the cached chain info without a
\* request
WitC9 ==
    \E t \in Tasks :
        /\ options.is_cache /\ started = 2
        /\ \A u \in Tasks \ {t} : pc[u] = "idle"
        /\ pc[t] = "done" /\ call[t] = "chain_info"
        /\ ci_filled[t] /\ ~ci_req[t]
        /\ ci_ret[t] = Ok(cached_chain_info.val)
        /\ result[t] = ci_ret[t]

\* the answer r of the info endpoint is an error or a chain info that fails
\* the caller's expectations
Rejected(r) == r.kind # "info" \/ ~options_verify(options, r.val)

\* C10: the slot never holds a chain info that fails options.verify; an
\* answer of the info endpoint that is an error or such a chain info leaves
\* the slot unchanged and ends the call with an error, "Chain info is
\* invalid" for the chain info, and no beacon or chain info is returned.
ThmC10 ==
    /\ [](cached_chain_info # None => options_verify(options, cached_chain_info.val))
    /\ [][\A t \in Tasks : \A r \in InfoResponses :
            (pc[t] = "info_req" /\ Rejected(r) /\ InfoAnswer(t, r)) =>
                /\ UNCHANGED cached_chain_info
                /\ pc'[t] = "done"
                /\ result'[t].tag = "Err"
                /\ ci_ret'[t] = result'[t]
                /\ r.kind = "info" => result'[t] = Err("Chain info is invalid")]_vars

\* C10: latest() or get() ended with "Chain info is invalid" and the slot
\* of a caching client is still empty
WitC10 ==
    \E t \in Tasks :
        /\ pc[t] = "done" /\ call[t] \in {"latest", "get"}
        /\ options.is_cache /\ cached_chain_info = None
        /\ result[t] = Err("Chain info is invalid")

\* the statements of chain_info() reached only with caching enabled
CacheSteps == {"ci_read", "ci_fetch", "ci_store", "ci_write"}

\* C11, as stated: with caching disabled the slot is absent in every state
\* and never written, and every chain_info() call that returns, whether
\* called directly, by latest() or get(), or by verify_beacon, has sent a
\* request of its own to the info endpoint: the call sends one when it
\* begins and returns only on the answer.
CexC11 ==
    /\ [](~options.is_cache =>
            /\ cached_chain_info = None /\ lock = None
            /\ \A t \in Tasks : pc[t] \notin CacheSteps
            /\ \A t \in Tasks : ci_ret[t] # None => ci_req[t])
    /\ [][~options.is_cache =>
            \A t \in Tasks :
                /\ (pc[t] = "ci" /\ pc'[t] # "ci") =>
                    (pc'[t] = "info_req" /\ ~ci_req[t] /\ ci_req'[t])
                /\ (pc'[t] = "info_req" /\ pc[t] # "info_req") => pc[t] = "ci"
                /\ (pc'[t] = "ci_return" /\ pc[t] # "ci_return") => pc[t] = "info_req"
                /\ (ci_ret[t] = None /\ ci_ret'[t] # None) =>
                    pc[t] \in {"info_req", "ci_return"}]_vars

\* C11: with caching disabled the slot is absent in every state and never
\* written.  On a client whose base URL can be a base, every chain_info()
\* call that returns, whether called directly, by latest() or get(), by
\* get_by_unix_time() or by verify_beacon, has sent a request of its own to
\* the info endpoint: the call sends one when it begins and returns only
\* on the answer.  On a client whose base URL cannot be a base, every
\* chain_info() call returns the error of the join and sends no request.
ThmC11 ==
    /\ [](~options.is_cache =>
            /\ cached_chain_info = None /\ lock = None
            /\ \A t \in Tasks : pc[t] \notin CacheSteps
            /\ \A t \in Tasks :
                ci_ret[t] # None =>
                    IF base_url.cannot_be_a_base
                    THEN ci_ret[t] = JoinError /\ ~ci_req[t]
                    ELSE ci_req[t])
    /\ [][~options.is_cache =>
            \A t \in Tasks :
                /\ (pc[t] = "ci" /\ pc'[t] # "ci") =>
                    IF base_url.cannot_be_a_base
                    THEN /\ pc'[t] = "done" /\ result'[t] = JoinError
                         /\ ci_ret'[t] = JoinError /\ ~ci_req'[t]
                    ELSE pc'[t] = "info_req" /\ ~ci_req[t] /\ ci_req'[t]
                /\ (pc'[t] = "info_req" /\ pc[t] # "info_req") => pc[t] = "ci"
                /\ (pc'[t] = "ci_return" /\ pc[t] # "ci_return") => pc[t] = "info_req"
                /\ (ci_ret[t] = None /\ ci_ret'[t] # None) =>
                    IF base_url.cannot_be_a_base THEN pc[t] = "ci"
                    ELSE pc[t] \in {"info_req", "ci_return"}]_vars

\* C11: without caching, a latest() with beacon verification returned a
\* beacon, the chain_info() call of verify_beacon having sent a request of
\* its own after the one of latest()
WitC11 ==
    \E t \in Tasks :
        /\ ~options.is_cache /\ options.is_beacon_verification
        /\ ~base_url.cannot_be_a_base
        /\ pc[t] = "done" /\ call[t] = "latest" /\ result[t].tag = "Ok"
        /\ site[t] = "verify" /\ ci_req[t] /\ ci_ret[t].tag = "Ok"
        /\ cached_chain_info = None

\* task t is inside lock(): it is at line 94 or line 99 without the guard
WaitsForLock(t) == (pc[t] = "ci" /\ options.is_cache) \/ pc[t] = "ci_store"

\* a request of task t is in flight: it is suspended at an await
Fetching(t) == pc[t] \in {"beacon_req", "info_req"}

\* task t returns from lock() with the guard
TakeGuard(t) == CacheLock(t) \/ CacheWriteLock(t)

\* the next step of task t reads or assigns the slot and drops the guard
DropsGuard(t) == pc[t] \in {"ci_read", "ci_write"}

\* C12: with caching enabled and calls running concurrently, the slot is
\* absent or holds one whole chain info of the server that passed
\* options.verify, and so is every chain info chain_info() returned; a filled
\* slot is never absent again; the guard is held by exactly the task that
\* is at the statement that reads or assigns the slot, never by a
\* task whose request is in flight; and a task inside lock() either gets
\* the guard or waits for a task that is not fetching and whose next step
\* drops the guard, so no interleaving ends with tasks stuck on the lock.
ThmC12 ==
    /\ [](options.is_cache =>
            /\ cached_chain_info # None =>
                /\ cached_chain_info.val \in ServerInfos
                /\ options_verify(options, cached_chain_info.val)
            /\ \A t \in Tasks :
                /\ (ci_filled[t] /\ ci_ret[t] # None) => ci_ret[t].tag = "Ok"
                /\ ci_ret[t].tag = "Ok" =>
                    /\ ci_ret[t].val \in ServerInfos
                    /\ options_verify(options, ci_ret[t].val)
            /\ \A t \in Tasks : DropsGuard(t) <=> lock = Some(t)
            /\ \A t \in Tasks : Fetching(t) => lock # Some(t)
            /\ \A t \in Tasks : WaitsForLock(t) =>
                \/ ENABLED TakeGuard(t)
                \/ \E u \in Tasks \ {t} :
                    lock = Some(u) /\ ~Fetching(u) /\ DropsGuard(u))
    /\ [][(options.is_cache /\ cached_chain_info # None) => cached_chain_info' # None]_vars

\* C12: one task, about to replace the chain info in the slot by the one
\* it fetched, is inside lock() while the other holds the guard to read
WitC12 ==
    \E t \in Tasks : \E u \in Tasks \ {t} :
        /\ options.is_cache
        /\ cached_chain_info # None
        /\ pc[t] = "ci_store" /\ ci_info[t] # cached_chain_info
        /\ lock = Some(u) /\ pc[u] = "ci_read"

\* C13: beacon.verify is invoked only in a call that fetched a beacon of
\* the server and to which chain_info() returned a verified chain info,
\* first for the time and then in verify_beacon.  An answer of the beacon
\* endpoint that is an error ends latest()/get() with the error before
\* chain_info() is called; an answer of the info endpoint that is an error
\* or fails options.verify ends the call with the error and without verify;
\* and no request is sent again: a call sends its beacon request when it
\* begins or, in get_by_unix_time, on the chain info for the time, a
\* chain_info() call sends at most one request, and a call that ended only
\* returns.
ThmC13 ==
    /\ [](\A t \in Tasks :
            /\ VerifyInvoked(t) =>
                /\ pc[t] = "done" /\ call[t] \in {"latest", "get"}
                /\ options.is_beacon_verification
                /\ api[t] \in ServerBeacons
                /\ ci_ret[t].val \in ServerInfos
                /\ options_verify(options, ci_ret[t].val)
                /\ \E i \in ServerInfos :
                    options_verify(options, i) /\ Ok(time[t]) \in unix_time(i, api[t])
            /\ (pc[t] = "done" /\ call[t] \in {"latest", "get"}
                    /\ options.is_beacon_verification /\ ~VerifyInvoked(t)) =>
                /\ result[t].tag \in {"Err", "Panic"}
                /\ api[t] = None =>
                    /\ result[t].tag = "Err"
                    /\ site[t] \in {"none", "time"}
                    /\ site[t] = "none" => (ci_ret[t] = None /\ ~ci_req[t])
                /\ (api[t] # None /\ result[t].tag = "Err") => result[t] = ci_ret[t]
                /\ result[t].tag = "Panic" =>
                    (ci_ret[t].tag = "Ok" /\ result[t] \in unix_time(ci_ret[t].val, api[t])))
    /\ [][\A t \in Tasks :
            /\ \A r \in BeaconResponses :
                (pc[t] = "beacon_req" /\ r.kind # "beacon" /\ BeaconAnswer(t, r)) =>
                    /\ pc'[t] = "done" /\ result'[t].tag = "Err"
                    /\ api'[t] = None
                    /\ UNCHANGED <<site, ci_req, ci_ret>>
            /\ \A r \in InfoResponses :
                (pc[t] = "info_req" /\ Rejected(r) /\ InfoAnswer(t, r)) =>
                    /\ pc'[t] = "done" /\ result'[t].tag = "Err"
                    /\ ~(site'[t] = "verify" /\ ci_ret'[t].tag = "Ok")
            /\ (pc'[t] = "beacon_req" /\ pc[t] # "beacon_req") =>
                    (pc[t] = "idle" \/ site[t] = "time")
            /\ (pc'[t] = "info_req" /\ pc[t] # "info_req") => ~ci_req[t]
            /\ pc[t] = "done" => pc'[t] \in {"done", "idle"}]_vars

\* C13: get() fetched a beacon and the time for it, and the fetch of the
\* chain info in verify_beacon failed: the call ended with that error and
\* verify was not invoked
WitC13 ==
    \E t \in Tasks :
        /\ pc[t] = "done" /\ call[t] = "get"
        /\ options.is_beacon_verification
        /\ api[t] \in ServerBeacons /\ unix_time(InfoA, api[t]) = {Ok(time[t])}
        /\ site[t] = "verify" /\ ci_ret[t].tag = "Err"
        /\ ~VerifyInvoked(t)
        /\ result[t] = ci_ret[t]

(***************************************************************************)
(* Properties of the round and time arithmetic, checked under Spec.        *)
(***************************************************************************)
\* the round that contains the time unix on the chain
FloorRound(chain, unix) == (unix - chain.genesis_time) \div chain.period

\* C14: for every time the client is called with, the computation of the
\* round neither panics nor wraps, and get_by_unix_time requests the round
\* floor((t - genesis_time) / period); the time attached to a returned
\* beacon is genesis_time + round * period, computed without overflow for
\* every round the server answers with; and the time attached to round r
\* leads to round r again.
CexC14 ==
    /\ [](\A i \in ServerInfos :
            /\ \A t \in Tasks :
                (pc[t] = "done" /\ call[t] \in {"latest", "get"}
                        /\ result[t].tag = "Ok") =>
                    \E j \in ServerInfos :
                        unix_time(j, result[t].val.beacon) = {Ok(result[t].val.time)}
            /\ \A t \in Tasks :
                (pc[t] = "done" /\ api[t] # None /\ ci_ret[t].tag = "Ok") =>
                    \A at \in unix_time(ci_ret[t].val, api[t]) : at.tag = "Ok"
            /\ \A r \in Rounds :
                \A at \in unix_time(i, [round |-> r]) :
                    /\ at.tag = "Ok"
                    /\ \A x \in round_at(i, at.val) : x = Ok(r))
    /\ [][\A t \in Tasks :
            (site[t] = "time" /\ round_unix_time[t] # None /\ ci_ret'[t].tag = "Ok") =>
                /\ ci_ret'[t].val.period > 0
                /\ \A x \in round_at(ci_ret'[t].val, round_unix_time[t].val) :
                        x.tag = "Ok"
                /\ pc'[t] = "beacon_req"
                /\ url'[t] = beacon_url(base_url, options,
                        FloorRound(ci_ret'[t].val, round_unix_time[t].val)).val]_vars

====
